---- MODULE Spec2Model ----
(***************************************************************************)
(* A state-machine model of two subsystems of moviepy:                     *)
(*                                                                         *)
(*   - FFMPEG_AudioReader (moviepy/audio/io/readers.py): the buffered      *)
(*     reader that serves sample reads from a sliding window filled by a   *)
(*     one-directional decoder process;                                    *)
(*   - Clip / AudioClip / CompositeAudioClip (moviepy/Clip.py and          *)
(*     moviepy/audio/AudioClip.py): the time window of a clip, its frame   *)
(*     function and the operators that derive new clips.                   *)
(*                                                                         *)
(* Times of the reader are counted in half sample periods ("ticks"): a     *)
(* time t is the tick h with fps*t = h/2, so that int(fps*t) and           *)
(* np.round(fps*t) differ as they do in the code.  Times of clips are      *)
(* whole seconds.                                                          *)
(***************************************************************************)
EXTENDS Integers, Sequences, FiniteSets, TLC

\* ------------------------------------------------------------------ bounds
\* Longest source, in ticks (fps * duracion = MaxTicks / 2).
MaxTicks == 8
\* Largest buffersize handed to the reader's constructor.
MaxBuffer == 3
\* Longest vector of times handed to get_frame.
MaxVec == 3
\* Latest time, in seconds, handed to a clip operator.
MaxT == 2
\* Most clips derived or composed in one run.
MaxOps == 2
\* AudioArrayClip: arrays of at most MaxSeconds seconds at 1..MaxFps samples
\* per second
MaxSeconds == 2
MaxFps == 2

\* --------------------------------------------------------------- constants
\* The forward distance beyond which seek respawns the decoder.
SkipLimit == 1000000

VARIABLES
    \* ---- FFMPEG_AudioReader
    duracion,            \* self.duracion, in ticks
    nframes,             \* self.nframes
    buffersize,          \* self.buffersize
    buffer,              \* self.buffer: the decoded rows
    buffer_iniciaframe,  \* self.buffer_iniciaframe
    pos,                 \* self.pos: the cursor the reader believes the decoder has
    proc,                \* self.proc: "live", or "deleted" after close_proc
    dec,                 \* the index of the next row the decoder process yields
    rd_last,             \* what the last reader call did and returned
    \* ---- Clip
    clips,               \* the clip objects, by identity: clips[k] holds the fields of object k
    handles,             \* the objects the caller holds: the constructed clips and the
                         \* clips the operators returned to it
    last                 \* what the last clip call was and what it returned

cvars == <<clips, handles, last>>
rvars == <<duracion, nframes, buffersize, buffer, buffer_iniciaframe, pos, proc,
           dec, rd_last>>
vars == <<rvars, cvars>>

Min(a, b) == IF a < b THEN a ELSE b
Max(a, b) == IF a > b THEN a ELSE b

\* ------------------------------------------------------- the decoded source
\* The row the decoder yields for sample index i: read_chunk scales and
\* reshapes the bytes of one sample into one row; rows of different samples
\* are told apart by i, and no source row is the all-zero row.
Sample(i) == i + 1
\* np.zeros(self.nchannels)
ZeroSample == 0
\* self.proc.stdout.read: at most n rows from the decoder's cursor d; the
\* stream holds the rows 0 .. nf-1 and a read at its end is short.
AvailableRows(nf, d, n) == Min(n, Max(0, nf - d))
DecoderRead(nf, d, n) == [k \in 1..AvailableRows(nf, d, n) |-> Sample(d + k - 1)]

\* int(self.fps * tt) of a time of h ticks: truncation towards zero.
ScalarIndex(h) == IF h >= 0 THEN h \div 2 ELSE -((-h) \div 2)
\* np.round(self.fps * tt).astype(int) of a time of h >= 0 ticks: halves go
\* to the even neighbour.
RoundIndex(h) ==
    LET q == h \div 2
    IN IF h % 2 = 0 THEN q ELSE IF q % 2 = 0 THEN q ELSE q + 1

\* ------------------------------------------------------ FFMPEG_AudioReader
\* The methods below act on a record r of the reader's fields
\*   buffer, isNone (self.buffer is None), inicia (buffer_iniciaframe), pos,
\*   proc, dec
\* and of what the running call has done so far
\*   err ("ok" or the exception that is propagating), calls (buffer_around
\*   calls), branch (the branch buffer_around took), seeks, spawns, kills
\*   (the processes terminated, their pipes closed), running (the decoder
\*   processes this reader spawned that are running now), peak (the most
\*   that ran at one time during the call), array (the rows read_chunk
\*   returned last).
\* proc is "None" (the attribute is None), "live" (it is a running decoder
\* with open pipes) or "deleted" (the attribute is gone).

\* A close_proc without its guard: it raises on a reader that owns no
\* process.  C20 depends on the guard.
CloseProcOf_NoGuard(r) ==
    IF r.proc = "live" THEN [r EXCEPT !.proc = "deleted", !.kills = r.kills + 1,
                                      !.running = r.running - 1]
    ELSE [r EXCEPT !.err = "AttributeError"]
\* close_proc: terminate the process, close its stdout and stderr and
\* delete the attribute, if there is a process.
CloseProcOf(r) ==
    IF r.proc = "live" THEN [r EXCEPT !.proc = "deleted", !.kills = r.kills + 1,
                                      !.running = r.running - 1]
    ELSE r

\* sp.Popen (line 103): one more process runs, and self.proc is that one.
Spawned(r) ==
    [r EXCEPT !.proc = "live", !.spawns = r.spawns + 1, !.running = r.running + 1,
              !.peak = Max(r.peak, r.running + 1)]

\* An initialize that spawns without closing the process it has: C23
\* depends on the close_proc of line 77.
Initialize_NoClose(r, p) == [Spawned(r) EXCEPT !.pos = p, !.dec = p]

\* initialize(iniciatime) with iniciatime = 1.0*p/fps: close_proc, then spawn
\* a decoder positioned at p; np.round(fps*iniciatime) is p again.
Initialize(r, p) == [Spawned(CloseProcOf(r)) EXCEPT !.pos = p, !.dec = p]

\* skip_chunk: read and drop chunksize rows.
SkipChunk(r, nf, chunksize) ==
    IF r.proc # "live" THEN [r EXCEPT !.err = "AttributeError"]
    ELSE [r EXCEPT !.pos = r.pos + chunksize,
                   !.dec = r.dec + AvailableRows(nf, r.dec, chunksize)]

\* read_chunk: the rows the decoder still has, at most chunksize of them;
\* self.pos advances by chunksize whatever was read.
ReadChunk(r, nf, chunksize) ==
    IF r.err # "ok" THEN r
    ELSE IF r.proc # "live" THEN [r EXCEPT !.err = "AttributeError"]
    ELSE [r EXCEPT !.array = DecoderRead(nf, r.dec, chunksize),
                   !.pos = r.pos + chunksize,
                   !.dec = r.dec + AvailableRows(nf, r.dec, chunksize)]

\* A seek that respawns the decoder whatever the position asked for: C22
\* depends on the test of line 138.
Seek_AlwaysRespawn(r, nf, p) ==
    [Initialize(r, p) EXCEPT !.seeks = r.seeks + 1]
\* seek(pos)
Seek(r, nf, p) ==
    LET moved == IF (p < r.pos) \/ (p > r.pos + SkipLimit) THEN Initialize(r, p)
                 ELSE IF p > r.pos THEN SkipChunk(r, nf, p - r.pos)
                 ELSE r
    IN IF moved.err # "ok" THEN [moved EXCEPT !.seeks = r.seeks + 1]
       ELSE [moved EXCEPT !.pos = p, !.seeks = r.seeks + 1]

\* buffer[-conserved:] of Python, for conserved >= 1.
LastRows(buf, conserved) ==
    IF conserved >= Len(buf) THEN buf
    ELSE SubSeq(buf, Len(buf) - conserved + 1, Len(buf))

\* new_bufferinicia = max(0, framenumber - self.buffersize // 2)
\* A buffer_around that starts the new window a whole buffer, not half a
\* buffer, before the frame asked for: C3's overlap case depends on the half.
NewBufferInicia_WholeBuffer(bs, framenumber) == Max(0, framenumber - bs)
NewBufferInicia(bs, framenumber) == Max(0, framenumber - bs \div 2)

\* conserved = current_f_end - new_bufferinicia + 1
Conserved(current_f_end, new_bufferinicia) == current_f_end - new_bufferinicia + 1

\* buffer_around(framenumber)
BufferAround(r, nf, bs, framenumber) ==
    LET new_bufferinicia == NewBufferInicia(bs, framenumber)
        current_f_end == r.inicia + bs
        conserved == Conserved(current_f_end, new_bufferinicia)
        called == [r EXCEPT !.calls = r.calls + 1]
        reuse == ReadChunk([called EXCEPT !.branch = "overlap"], nf, bs - conserved)
        sought == Seek([called EXCEPT !.branch = "seek"], nf, new_bufferinicia)
        fresh == ReadChunk(sought, nf, bs)
    IN IF (~r.isNone) /\ new_bufferinicia < current_f_end
                      /\ current_f_end < new_bufferinicia + bs
       THEN IF reuse.err # "ok" THEN reuse
            ELSE [reuse EXCEPT !.buffer = LastRows(r.buffer, conserved) \o reuse.array,
                               !.inicia = new_bufferinicia]
       ELSE IF fresh.err # "ok" THEN fresh
            ELSE [fresh EXCEPT !.buffer = fresh.array, !.isNone = FALSE,
                               !.inicia = new_bufferinicia]

\* 0 <= (ind - self.buffer_iniciaframe) < len(self.buffer)
InBuffer(r, ind) == 0 <= ind - r.inicia /\ ind - r.inicia < Len(r.buffer)

\* ind < 0 or ind > self.nframes
OutOfTime(nf, ind) == ind < 0 \/ ind > nf

\* self.buffer[i] of numpy for one integer i: a negative i counts from the
\* end, and an i outside [-len, len) raises IndexError.
IndexOk(buf, i) == -Len(buf) <= i /\ i < Len(buf)
RowAt(buf, i) == IF i >= 0 THEN buf[i + 1] ELSE buf[Len(buf) + i + 1]

\* get_frame(tt) for a scalar tt of h ticks (lines 195-206).
ScalarGetFrame(r, nf, bs, h) ==
    LET ind == ScalarIndex(h)
        around == IF InBuffer(r, ind) THEN r ELSE BufferAround(r, nf, bs, ind)
    IN IF OutOfTime(nf, ind) THEN [r EXCEPT !.out = <<ZeroSample>>]
       ELSE IF around.err # "ok" THEN around
       ELSE IF ~IndexOk(around.buffer, ind - around.inicia)
            THEN [around EXCEPT !.err = "IndexError"]
       ELSE [around EXCEPT !.out = <<RowAt(around.buffer, ind - around.inicia)>>]

\* in_time = (tt >= 0) & (tt < self.duracion)
InTime(dur, h) == h >= 0 /\ h < dur

\* get_frame(tt) for an array tt of times, in ticks (lines 160-193).
VectorGetFrame(r, dur, nf, bs, tt) ==
    LET in_time == {j \in 1..Len(tt) : InTime(dur, tt[j])}
        frames == {RoundIndex(tt[j]) : j \in in_time}
        fr_min == CHOOSE f \in frames : \A g \in frames : f <= g
        fr_max == CHOOSE f \in frames : \A g \in frames : f >= g
        around == IF ~InBuffer(r, fr_min) THEN BufferAround(r, nf, bs, fr_min)
                  ELSE IF ~InBuffer(r, fr_max) THEN BufferAround(r, nf, bs, fr_max)
                  ELSE r
        indices == [j \in 1..Len(tt) |-> RoundIndex(tt[j]) - around.inicia]
    IN IF frames = {} THEN [r EXCEPT !.err = "ValueError"]
       ELSE IF around.err # "ok" THEN around
       ELSE IF \E j \in in_time : ~IndexOk(around.buffer, indices[j])
            THEN [around EXCEPT !.err = "IOError"]
       ELSE [around EXCEPT !.out =
                [j \in 1..Len(tt) |-> IF j \in in_time
                                      THEN RowAt(around.buffer, indices[j])
                                      ELSE ZeroSample]]

\* The reader's fields as the record the methods act on, at the start of a call.
Reader ==
    [buffer |-> buffer, isNone |-> FALSE, inicia |-> buffer_iniciaframe, pos |-> pos,
     proc |-> proc, dec |-> dec,
     err |-> "ok", calls |-> 0, branch |-> "none", seeks |-> 0, spawns |-> 0,
     kills |-> 0, running |-> IF proc = "live" THEN 1 ELSE 0,
     peak |-> IF proc = "live" THEN 1 ELSE 0, array |-> <<>>, out |-> <<>>]

\* __init__ (lines 47-70) for a source of dur ticks and a requested
\* buffersize bsz: nframes = int(fps*duracion), buffersize = min(nframes+1,
\* buffersize), buffer = None, buffer_iniciaframe = 1, initialize(),
\* buffer_around(1).  Unspawned is the reader of lines 47-67, before
\* initialize.
Unspawned ==
    [buffer |-> <<>>, isNone |-> TRUE, inicia |-> 1, pos |-> 0,
     proc |-> "None", dec |-> 0,
     err |-> "ok", calls |-> 0, branch |-> "none", seeks |-> 0,
     spawns |-> 0, kills |-> 0, running |-> 0, peak |-> 0, array |-> <<>>, out |-> <<>>]
Constructed(dur, bsz) ==
    LET nf == dur \div 2
        bs == Min(nf + 1, bsz)
    IN BufferAround(Initialize(Unspawned, 0), nf, bs, 1)

\* What a call leaves in rd_last.
Trace(op, arg, r) ==
    [op |-> op, arg |-> arg, status |-> r.err, calls |-> r.calls, branch |-> r.branch,
     seeks |-> r.seeks, spawns |-> r.spawns, kills |-> r.kills, running |-> r.running,
     peak |-> r.peak, out |-> r.out]

\* The reader's fields after a call that ended in r.
Store(r) ==
    /\ buffer' = r.buffer
    /\ buffer_iniciaframe' = r.inicia
    /\ pos' = r.pos
    /\ proc' = r.proc
    /\ dec' = r.dec

\* The times a caller asks for: from one sample period before the source to
\* one after it.
Ticks(dur) == -2..(dur + 2)
\* The arrays of times a caller asks for: n times one sample period apart
\* from any first time, as the np.arange of AudioClip.to_soundarray and
\* iter_chunks produces them.
Vectors(dur) ==
    {[j \in 1..n |-> a + 2 * (j - 1)] : a \in Ticks(dur), n \in 1..MaxVec}

\* The reader after construction on a source of dur ticks with a requested
\* buffersize bsz.
ReaderConstructed(dur, bsz) ==
    LET r == Constructed(dur, bsz)
    IN /\ duracion = dur
       /\ nframes = dur \div 2
       /\ buffersize = Min(dur \div 2 + 1, bsz)
       /\ buffer = r.buffer
       /\ buffer_iniciaframe = r.inicia
       /\ pos = r.pos
       /\ proc = r.proc
       /\ dec = r.dec
       /\ rd_last = Trace("init", <<>>, r)

\* No clip exists beside the reader.
NoClips ==
    /\ clips = <<>>
    /\ handles = {}
    /\ last = [op |-> "init", src |-> 0, a |-> 0, b |-> 0, flag |-> FALSE, res |-> 0,
               status |-> "ok", out |-> 0]

RInit ==
    \E dur \in 2..MaxTicks, bsz \in 1..MaxBuffer : ReaderConstructed(dur, bsz) /\ NoClips

\* reader.get_frame(t) for a scalar time t
GetFrameScalar ==
    \E h \in Ticks(duracion) :
        LET r == ScalarGetFrame(Reader, nframes, buffersize, h)
        IN /\ Store(r)
           /\ rd_last' = Trace("scalar", <<h>>, r)
           /\ UNCHANGED <<duracion, nframes, buffersize, cvars>>

\* reader.get_frame(tt) for an array of times tt
GetFrameVector ==
    \E tt \in Vectors(duracion) :
        LET r == VectorGetFrame(Reader, duracion, nframes, buffersize, tt)
        IN /\ Store(r)
           /\ rd_last' = Trace("vector", tt, r)
           /\ UNCHANGED <<duracion, nframes, buffersize, cvars>>

\* reader.close_proc() (also what __del__ runs)
CloseProc ==
    LET r == CloseProcOf(Reader)
    IN /\ Store(r)
       /\ rd_last' = Trace("close", <<>>, r)
       /\ UNCHANGED <<duracion, nframes, buffersize, cvars>>

RNext == GetFrameScalar \/ GetFrameVector \/ CloseProc

\* The positions a caller seeks to: the frames of the source and one past
\* them, and the two positions around the forward-skip limit of line 138.
\* The far positions are asked only while pos is near the source, which
\* keeps pos bounded.
Positions ==
    (0..(nframes + 1))
    \cup (IF pos <= nframes + MaxBuffer + 1 THEN {pos + SkipLimit, pos + SkipLimit + 1} ELSE {})

\* reader.seek(p)
SeekTo ==
    \E p \in Positions :
        LET r == Seek(Reader, nframes, p)
        IN /\ Store(r)
           /\ rd_last' = Trace("seek", <<p>>, r)
           /\ UNCHANGED <<duracion, nframes, buffersize, cvars>>

SNext == GetFrameScalar \/ GetFrameVector \/ CloseProc \/ SeekTo


\* -------------------------------------------------------------------- Clip
\* None, for a time field that is not set.
None == -1000
\* No object: an attribute (audio, mask) that is absent or None.
NoClip == 0

\* The channels of the frames of source function g: functions 3 and 4 are
\* mono, the others stereo.
Channels(g) == IF g \in {3, 4} THEN 1 ELSE 2

\* The frame a source function (a make_frame handed to a constructor or to
\* set_make_frame) yields at time t, one value per channel; g names the
\* function, and different functions, channels and times give different
\* values.
SourceFrame(g, t) == [k \in 1..Channels(g) |-> 100 * g + 10 * k + t]

\* np.zeros(n)
Zeros(n) == [k \in 1..n |-> 0]

\* a + b of two frames, a mono frame broadcast over the channels of the other
AddFrames(a, b) ==
    [k \in 1..Max(Len(a), Len(b)) |-> a[Min(k, Len(a))] + b[Min(k, Len(b))]]

\* A function handed to fl, as data: where it samples gf and what it does
\* with the frame.  "gain" is a user's (gf, t) -> 2*gf(t); "double" is
\* fl_time's wrapper of a user's t -> 2*t; "shift" is subclip's and "cut"
\* is cutout's.
Fun(kind, a, b) == [kind |-> kind, a |-> a, b |-> b]
\* subclip's lambda t: t + t_inicia
ShiftTime(t, t_inicia) == t + t_inicia
\* cutout's fl = lambda t: t + (t >= ta)*(tb - ta)
CutTime(t, ta, tb) == t + (IF t >= ta THEN tb - ta ELSE 0)
TMap(fun, t) ==
    CASE fun.kind = "shift" -> ShiftTime(t, fun.a)
      [] fun.kind = "cut" -> CutTime(t, fun.a, fun.b)
      [] fun.kind = "double" -> 2 * t
      [] OTHER -> t
VMap(fun, v) == IF fun.kind = "gain" THEN [k \in DOMAIN v |-> 2 * v[k]] ELSE v

\* The make_frame attribute, as data.
NoMakeFrame == [tag |-> "unset", g |-> 0, parent |-> NoClip, fun |-> Fun("none", 0, 0),
                clips |-> <<>>]
\* a source function
LeafFrame(g) == [NoMakeFrame EXCEPT !.tag = "leaf", !.g = g]
\* fl's lambda t: fun(self.get_frame, t)
FlFrame(self, fun) == [NoMakeFrame EXCEPT !.tag = "fl", !.parent = self, !.fun = fun]
\* CompositeAudioClip's make_frame over self.clips
CompositeFrame(self, children) ==
    [NoMakeFrame EXCEPT !.tag = "composite", !.parent = self, !.clips = children]

\* Clip.__init__
NewClip ==
    [inicia |-> 0, fin |-> None, duracion |-> None,
     memoize |-> FALSE, memoized_t |-> None, memoized_frame |-> <<>>,
     make_frame |-> NoMakeFrame, nchannels |-> 0, audio |-> NoClip, mask |-> NoClip,
     asked |-> None]

\* AudioClip.__init__(make_frame, duracion) with a source function g of
\* nch channels.
NewAudioClip(g, nch, dur) ==
    LET made == [NewClip EXCEPT !.make_frame = LeafFrame(g), !.nchannels = nch]
    IN IF dur # None THEN [made EXCEPT !.duracion = dur, !.fin = dur] ELSE made

\* An is_playing whose window is closed at fin: C7 depends on the strict
\* comparison.
IsPlayingAt_Closed(o, t) == (t >= o.inicia) /\ ((o.fin = None) \/ (t <= o.fin))
\* Clip.is_playing(t), t a scalar
IsPlayingAt(o, t) == (t >= o.inicia) /\ ((o.fin = None) \/ (t < o.fin))

\* The array np.arange(a, a + n) of n times one second apart.
RECURSIVE Arange(_, _)
Arange(a, n) == IF n = 0 THEN <<>> ELSE Append(Arange(a, n - 1), a + (n - 1))
\* The False that is_playing returns for an array wholly outside the clip.
NotPlaying == <<>>
\* 1 * (t >= self.inicia), times (t <= self.fin) when fin is set: lines 343-345
RECURSIVE PlayingRows(_, _)
PlayingRows(o, tt) ==
    IF tt = <<>> THEN <<>>
    ELSE <<IF (Head(tt) >= o.inicia) /\ ((o.fin = None) \/ (Head(tt) <= o.fin))
           THEN 1 ELSE 0>> \o PlayingRows(o, Tail(tt))
\* Clip.is_playing(t), t an array (lines 333-347): False, or one 0/1 per time.
IsPlayingVector(o, tt) ==
    LET tmin == CHOOSE x \in {tt[j] : j \in DOMAIN tt} : \A j \in DOMAIN tt : x <= tt[j]
        tmax == CHOOSE x \in {tt[j] : j \in DOMAIN tt} : \A j \in DOMAIN tt : x >= tt[j]
    IN IF (o.fin # None) /\ (tmin >= o.fin) THEN NotPlaying
       ELSE IF tmax < o.inicia THEN NotPlaying
       ELSE PlayingRows(o, tt)

\* Clip.get_frame(t) on object c of heap h: the frame and the heap with the
\* memoized fields it wrote.  make_frame runs the clip's frame function,
\* which may call get_frame of the clip it closes over.
RECURSIVE GetFrame(_, _, _)
RECURSIVE MakeFrame(_, _, _)
RECURSIVE SumSounds(_, _, _, _)
RECURSIVE AddSound(_, _, _, _)

\* sound + rest, rest being the sum of the sounds after it
AddRest(sound, rest) ==
    IF rest.err # "ok" THEN rest ELSE [rest EXCEPT !.out = AddFrames(sound, rest.out)]

\* A sum that takes every child, playing or not: C11 depends on the
\* is_playing filter.
SumSounds_AllChildren(h, children, k, t) ==
    IF k > Len(children) THEN [h |-> h, out |-> <<0>>, err |-> "ok"]
    ELSE AddSound(GetFrame(h, children[k], t - h[children[k]].inicia), children, k, t)

\* CompositeAudioClip's make_frame, lines 289-293 and sum(sounds): the sum
\* of c.get_frame(t - c.inicia) over the children with is_playing(t), from
\* the k-th child on; the 0 that sum starts from is a zero of one channel.
SumSounds(h, children, k, t) ==
    IF k > Len(children) THEN [h |-> h, out |-> <<0>>, err |-> "ok"]
    ELSE IF ~IsPlayingAt(h[children[k]], t) THEN SumSounds(h, children, k + 1, t)
    ELSE AddSound(GetFrame(h, children[k], t - h[children[k]].inicia), children, k, t)

\* sounds[k] + (the sum of the sounds after it), mine being the k-th
\* child's get_frame
AddSound(mine, children, k, t) ==
    IF mine.err # "ok" THEN mine
    ELSE AddRest(mine.out, SumSounds(mine.h, children, k + 1, t))

\* fun(self.get_frame, t) with the frame gf returned: line 136
Applied(fun, inner) ==
    IF inner.err # "ok" THEN inner ELSE [inner EXCEPT !.out = VMap(fun, inner.out)]

\* zero + sum(sounds): lines 295-301, zero being np.zeros(self.nchannels) of
\* the composite that made the function
OnZero(nchannels, sounds) ==
    IF sounds.err # "ok" THEN sounds
    ELSE [sounds EXCEPT !.out = AddFrames(Zeros(nchannels), sounds.out)]

MakeFrame(h, c, t) ==
    CASE h[c].make_frame.tag = "leaf" ->
            [h |-> h, out |-> SourceFrame(h[c].make_frame.g, t), err |-> "ok"]
      [] h[c].make_frame.tag = "fl" ->
            Applied(h[c].make_frame.fun,
                    GetFrame(h, h[c].make_frame.parent, TMap(h[c].make_frame.fun, t)))
      [] h[c].make_frame.tag = "composite" ->
            OnZero(h[h[c].make_frame.parent].nchannels,
                   SumSounds(h, h[c].make_frame.clips, 1, t))
      [] OTHER -> [h |-> h, out |-> <<>>, err |-> "AttributeError"]

\* get_frame(t) runs make_frame: lines 86-95
Invokes(o, t) == ~(o.memoize /\ t = o.memoized_t)

\* lines 91-93 after make_frame returned made; asked keeps the time of the
\* last get_frame call on a memoizing clip
Memoized(made, c, t) ==
    IF made.err # "ok" THEN made
    ELSE [made EXCEPT !.h = [made.h EXCEPT ![c].memoized_t = t,
                                           ![c].memoized_frame = made.out,
                                           ![c].asked = t]]

GetFrame(h, c, t) ==
    IF ~h[c].memoize THEN MakeFrame(h, c, t)
    ELSE IF Invokes(h[c], t) THEN Memoized(MakeFrame(h, c, t), c, t)
    ELSE [h |-> [h EXCEPT ![c].asked = t], out |-> h[c].memoized_frame, err |-> "ok"]

\* Clip.copy() of object c: the heap with newclip put at Len(h) + 1 and the
\* shallow copies of its audio and mask after it.  No get_frame call has
\* been made on a new object.
AudioCopyId(h, c) == IF h[c].audio = NoClip THEN NoClip ELSE Len(h) + 2
MaskCopyId(h, c) ==
    IF h[c].mask = NoClip THEN NoClip
    ELSE IF h[c].audio = NoClip THEN Len(h) + 2 ELSE Len(h) + 3
\* A copy that keeps the audio and mask references of the original: C6
\* depends on copy's shallow copies of them.
Copy_SharedAudioMask(h, c) == Append(h, [h[c] EXCEPT !.asked = None])
Copy(h, c) ==
    LET newclip == [h[c] EXCEPT !.audio = AudioCopyId(h, c), !.mask = MaskCopyId(h, c),
                                !.asked = None]
        audio == IF h[c].audio = NoClip THEN <<>>
                 ELSE <<[h[h[c].audio] EXCEPT !.asked = None]>>
        mask == IF h[c].mask = NoClip THEN <<>>
                ELSE <<[h[h[c].mask] EXCEPT !.asked = None]>>
    IN (h \o <<newclip>>) \o (audio \o mask)

\* The bodies of the setters, on the fields of the copy.
\* set_inicia(t, change_end)
\* A set_inicia without its elif branch, which leaves duracion as it was
\* when fin is kept: C4 depends on that branch.
SetIniciaBody_NoElif(o, t, change_end) ==
    LET started == [o EXCEPT !.inicia = t]
    IN IF (o.duracion # None) /\ change_end THEN [started EXCEPT !.fin = t + o.duracion]
       ELSE started
SetIniciaBody(o, t, change_end) ==
    LET started == [o EXCEPT !.inicia = t]
    IN IF (o.duracion # None) /\ change_end THEN [started EXCEPT !.fin = t + o.duracion]
       ELSE IF o.fin # None THEN [started EXCEPT !.duracion = o.fin - t]
       ELSE started
\* set_end(t)
SetEndBody(o, t) == [o EXCEPT !.fin = t, !.duracion = t - o.inicia]
\* set_duration(t, change_end=True)
SetDurationBody(o, t) ==
    [o EXCEPT !.duracion = t, !.fin = IF t = None THEN None ELSE o.inicia + t]

\* What an operator returns: the heap, the object returned (NoClip when it
\* raised) and "ok" or the exception.
Returned(h, res) == [h |-> h, res |-> res, err |-> "ok"]
Raised(h, err) == [h |-> h, res |-> NoClip, err |-> err]

\* A setter under @apply_to_mask @apply_to_audio @outplace: the body runs on
\* a copy of the clip and, with the same arguments, on a copy of its audio
\* and of its mask.  (Each sub-clip is copied twice, by Clip.copy and by the
\* setter's own outplace; the first copy is dropped at once and left out.)
\* edited[k] is the body's effect on object k of the heap after the copy.
Outplace(h, c, edited) ==
    LET copied == Copy(h, c)
    IN Returned([k \in DOMAIN copied |-> IF k > Len(h) THEN edited[k] ELSE copied[k]],
                Len(h) + 1)

\* An operator under @outplace alone: the body runs on the copy of the clip;
\* its audio and mask are the plain copies of Clip.copy.
\* edited is the body's effect on the copy.
OutplaceOne(h, c, edited) ==
    Returned([Copy(h, c) EXCEPT ![Len(h) + 1] = edited], Len(h) + 1)

\* newclip = self.copy(), the object the body of an operator works on
NewclipOf(h, c) == Copy(h, c)[Len(h) + 1]

SetInicia(h, c, t, change_end) ==
    Outplace(h, c, [k \in DOMAIN Copy(h, c) |-> SetIniciaBody(Copy(h, c)[k], t, change_end)])

SetEnd(h, c, t) ==
    Outplace(h, c, [k \in DOMAIN Copy(h, c) |-> SetEndBody(Copy(h, c)[k], t)])

\* set_duration(t, change_end): with change_end false the body reads the
\* undefined name duracion (line 290) and raises NameError.
SetDuration(h, c, t, change_end) ==
    IF change_end
    THEN Outplace(h, c, [k \in DOMAIN Copy(h, c) |-> SetDurationBody(Copy(h, c)[k], t)])
    ELSE Raised(h, "NameError")

SetMakeFrame(h, c, mf) == OutplaceOne(h, c, [NewclipOf(h, c) EXCEPT !.make_frame = mf])

SetMemoize(h, c, memoize) == OutplaceOne(h, c, [NewclipOf(h, c) EXCEPT !.memoize = memoize])

\* fl(fun, apply_to=[], keep_duration): lines 136-140
FlBody(o, self, fun, keep_duration) ==
    LET newclip == [o EXCEPT !.make_frame = FlFrame(self, fun)]
    IN IF keep_duration THEN newclip
       ELSE [newclip EXCEPT !.duracion = None, !.fin = None]

FlOne(h, c, fun, keep_duration) ==
    OutplaceOne(h, c, FlBody(NewclipOf(h, c), c, fun, keep_duration))

\* setattr(newclip, attr, new_a): the result r with its audio or mask
\* replaced by the clip sub returned
SetAttr(r, attr, sub) ==
    [r EXCEPT !.h = [sub.h EXCEPT ![r.res] =
                        IF attr = "audio" THEN [@ EXCEPT !.audio = sub.res]
                        ELSE [@ EXCEPT !.mask = sub.res]]]

\* getattr(newclip, attr)
GetAttr(r, attr) == IF attr = "audio" THEN r.h[r.res].audio ELSE r.h[r.res].mask

\* lines 145-150 for one attr of apply_to: a.fl(fun, keep_duration) replaces
\* the attribute of newclip
FlAttr(r, attr, fun, keep_duration) ==
    IF GetAttr(r, attr) = NoClip THEN r
    ELSE SetAttr(r, attr, FlOne(r.h, GetAttr(r, attr), fun, keep_duration))

RECURSIVE FlAttrs(_, _, _, _, _)
FlAttrs(r, apply_to, k, fun, keep_duration) ==
    IF k > Len(apply_to) THEN r
    ELSE FlAttrs(FlAttr(r, apply_to[k], fun, keep_duration), apply_to, k + 1, fun,
                 keep_duration)

Fl(h, c, fun, apply_to, keep_duration) ==
    FlAttrs(FlOne(h, c, fun, keep_duration), apply_to, 1, fun, keep_duration)

\* fl_time(t_func, apply_to, keep_duration): fl of lambda gf, t: gf(t_func(t))
FlTime(h, c, t_func, apply_to, keep_duration) == Fl(h, c, t_func, apply_to, keep_duration)

\* subclip's t_end after lines 389-402
ResolvedEnd(dur, t_end) ==
    IF (t_end = None) /\ (dur # None) THEN dur
    ELSE IF (t_end # None) /\ (t_end < 0)
         THEN IF dur = None THEN t_end ELSE dur + t_end
         ELSE t_end

\* subclip lines 404-407 on the clip made by fl_time
WithEnd(made, end, t_inicia) ==
    IF end = None THEN made
    ELSE [made EXCEPT !.h[made.res] =
             [@ EXCEPT !.duracion = end - t_inicia,
                       !.fin = made.h[made.res].inicia + (end - t_inicia)]]

\* A subclip without the test of lines 381-385: C12 depends on it.
SubclipOne_NoTest(h, c, t_inicia, t_end) ==
    WithEnd(FlTime(h, c, Fun("shift", t_inicia, 0), <<>>, FALSE),
            ResolvedEnd(h[c].duracion, t_end), t_inicia)

\* The body of subclip (lines 381-409) on object c.
SubclipOne(h, c, t_inicia, t_end) ==
    IF (h[c].duracion # None) /\ (t_inicia > h[c].duracion) THEN Raised(h, "ValueError")
    ELSE WithEnd(FlTime(h, c, Fun("shift", t_inicia, 0), <<>>, FALSE),
                 ResolvedEnd(h[c].duracion, t_end), t_inicia)

\* cutout lines 432-438 on the clip made by fl_time: newclip.set_duration
\* copies newclip, its audio and its mask once more, and the copies it
\* replaces are left out.
WithDuration(h, made, dur) ==
    IF dur = None THEN made
    ELSE [made EXCEPT !.h = [k \in DOMAIN made.h |->
             IF k > Len(h) THEN SetDurationBody(made.h[k], dur) ELSE made.h[k]]]

\* The body of cutout (lines 429-438) on object c.
CutoutOne(h, c, ta, tb) ==
    WithDuration(h, FlTime(h, c, Fun("cut", ta, tb), <<>>, FALSE),
                 IF h[c].duracion = None THEN None ELSE h[c].duracion - (tb - ta))

\* subclip or cutout with its arguments, as data, and its body on object c
Method(name, a, b) == [name |-> name, a |-> a, b |-> b]
BodyOf(h, c, method) ==
    IF method.name = "subclip" THEN SubclipOne(h, c, method.a, method.b)
    ELSE CutoutOne(h, c, method.a, method.b)

\* newclip.audio = f(newclip.audio, ...) of @apply_to_audio, and the same
\* for the mask: the attribute of the result r is replaced by the clip sub
\* the method returned for it; an exception there leaves the caller with no
\* clip.
Attach(h, r, attr, sub) ==
    IF sub.err # "ok" THEN Raised(h, sub.err) ELSE SetAttr(r, attr, sub)

CascadeTo(h, r, attr, method) ==
    IF r.err # "ok" THEN r
    ELSE IF GetAttr(r, attr) = NoClip THEN r
    ELSE Attach(h, r, attr, BodyOf(r.h, GetAttr(r, attr), method))

\* @apply_to_mask @apply_to_audio around subclip or cutout: the audio of the
\* result, then its mask.
Cascade(h, first, method) ==
    CascadeTo(h, CascadeTo(h, first, "audio", method), "mask", method)

Subclip(h, c, t_inicia, t_end) ==
    Cascade(h, SubclipOne(h, c, t_inicia, t_end), Method("subclip", t_inicia, t_end))

Cutout(h, c, ta, tb) ==
    Cascade(h, CutoutOne(h, c, ta, tb), Method("cutout", ta, tb))

\* CompositeAudioClip.__init__(clips): lines 278-285, 303
MaxOf(S) == CHOOSE x \in S : \A y \in S : x >= y
\* A composite that takes the longest child duracion rather than the latest
\* child fin: C10 depends on the ends.
CompositeAudioClip_MaxDuracion(h, children) ==
    LET durs == {h[children[k]].duracion : k \in 1..Len(children)}
        made == [NewClip EXCEPT
                    !.nchannels = MaxOf({h[children[k]].nchannels : k \in 1..Len(children)}),
                    !.make_frame = CompositeFrame(Len(h) + 1, children)]
    IN IF None \in durs THEN Returned(Append(h, made), Len(h) + 1)
       ELSE Returned(Append(h, [made EXCEPT !.duracion = MaxOf(durs), !.fin = MaxOf(durs)]),
                     Len(h) + 1)
CompositeAudioClip(h, children) ==
    LET ends == {h[children[k]].fin : k \in 1..Len(children)}
        made == [NewClip EXCEPT
                    !.nchannels = MaxOf({h[children[k]].nchannels : k \in 1..Len(children)}),
                    !.make_frame = CompositeFrame(Len(h) + 1, children)]
    IN IF None \in ends THEN Returned(Append(h, made), Len(h) + 1)
       ELSE Returned(Append(h, [made EXCEPT !.duracion = MaxOf(ends), !.fin = MaxOf(ends)]),
                     Len(h) + 1)

\* ------------------------------------------------------------ clip actions
Times == 0..MaxT

\* The function handed to fl ("gain") and the one handed to fl_time
\* ("double") by the calls of the model.
FunOf(op) == IF op = "fl" THEN Fun("gain", 0, 0) ELSE Fun("double", 0, 0)

\* What a call leaves in last: the operator, the object it was called on,
\* its arguments (a, b, flag), the object returned, "ok" or the exception,
\* and the value returned by get_frame or is_playing.
Call(op, src, a, b, flag, r) ==
    [op |-> op, src |-> src, a |-> a, b |-> b, flag |-> flag, res |-> r.res,
     status |-> r.err, out |-> 0]

\* An operator that returns a clip: the heap grows by the objects it made,
\* and the caller holds the clip returned.
\* A run goes on until the caller holds MaxOps clips beside the one it
\* constructed.
Budget == Cardinality(handles) <= MaxOps

Derive(op, src, a, b, flag, r) ==
    /\ Budget
    /\ clips' = r.h
    /\ handles' = IF r.err = "ok" THEN handles \cup {r.res} ELSE handles
    /\ last' = Call(op, src, a, b, flag, r)
    /\ UNCHANGED rvars

\* The clips a run starts from: one AudioClip(make_frame, duracion), or a
\* clip that carries an audio clip and a mask clip of the same duracion.
CInit ==
    /\ \E dur \in {None} \cup (1..MaxT), family \in BOOLEAN :
          /\ clips = IF family
                     THEN <<NewAudioClip(2, 2, dur), NewAudioClip(3, 1, dur),
                            [NewAudioClip(1, 2, dur) EXCEPT !.audio = 1, !.mask = 2]>>
                     ELSE <<NewAudioClip(1, 2, dur)>>
          /\ handles = {Len(clips)}
    /\ last = Call("init", NoClip, 0, 0, FALSE, Raised(<<>>, "ok"))
    /\ ReaderConstructed(2, 1)

DoSetInicia ==
    \E c \in handles, t \in Times, change_end \in BOOLEAN :
        Derive("set_inicia", c, t, 0, change_end, SetInicia(clips, c, t, change_end))

DoSetEnd ==
    \E c \in handles, t \in Times :
        Derive("set_end", c, t, 0, FALSE, SetEnd(clips, c, t))

DoSetDuration ==
    \E c \in handles, t \in Times \cup {None}, change_end \in BOOLEAN :
        Derive("set_duration", c, t, 0, change_end, SetDuration(clips, c, t, change_end))

DoSetMakeFrame ==
    \E c \in handles :
        Derive("set_make_frame", c, 0, 0, FALSE, SetMakeFrame(clips, c, LeafFrame(4)))

DoSetMemoize ==
    \E c \in handles, memoize \in BOOLEAN :
        Derive("set_memoize", c, 0, 0, memoize, SetMemoize(clips, c, memoize))

DoFl ==
    \E c \in handles, apply_to \in {<<>>, <<"mask", "audio">>}, keep_duration \in BOOLEAN :
        Derive("fl", c, Len(apply_to), 0, keep_duration,
               Fl(clips, c, FunOf("fl"), apply_to, keep_duration))

DoFlTime ==
    \E c \in handles, keep_duration \in BOOLEAN :
        Derive("fl_time", c, 0, 0, keep_duration,
               FlTime(clips, c, FunOf("fl_time"), <<>>, keep_duration))

DoSubclip ==
    \E c \in handles, t_inicia \in Times, t_end \in {None} \cup (-1..MaxT) :
        Derive("subclip", c, t_inicia, t_end, FALSE, Subclip(clips, c, t_inicia, t_end))

DoCutout ==
    \E c \in handles, ta \in Times, tb \in Times :
        Derive("cutout", c, ta, tb, FALSE, Cutout(clips, c, ta, tb))

DoComposite ==
    \E children \in UNION {[1..n -> handles] : n \in 1..2} :
        Derive("composite", children[1], children[Len(children)], Len(children), FALSE,
               CompositeAudioClip(clips, children))

\* clip.get_frame(t)
DoGetFrame ==
    \E c \in handles, t \in Times :
        LET r == GetFrame(clips, c, t)
        IN /\ Budget
           /\ clips' = r.h
           /\ last' = [op |-> "get_frame", src |-> c, a |-> t, b |-> 0, flag |-> FALSE,
                       res |-> NoClip, status |-> r.err, out |-> r.out]
           /\ UNCHANGED <<handles, rvars>>

\* clip.is_playing(t)
DoIsPlaying ==
    \E c \in handles :
        \E t \in (Times \cup {clips[c].fin}) \ {None} :
            /\ Budget
            /\ last' = [op |-> "is_playing", src |-> c, a |-> t, b |-> 0, flag |-> FALSE,
                        res |-> NoClip, status |-> "ok",
                        out |-> IF IsPlayingAt(clips[c], t) THEN 1 ELSE 0]
            /\ UNCHANGED <<clips, handles, rvars>>

\* clip.is_playing(tt) for an array of times tt = np.arange(a, a + n)
DoIsPlayingVector ==
    \E c \in handles, a \in Times, n \in 1..MaxVec :
        /\ Budget
        /\ last' = [op |-> "is_playing_vector", src |-> c, a |-> a, b |-> n, flag |-> FALSE,
                    res |-> NoClip, status |-> "ok",
                    out |-> IsPlayingVector(clips[c], Arange(a, n))]
        /\ UNCHANGED <<clips, handles, rvars>>

CNext ==
    \/ DoSetInicia \/ DoSetEnd \/ DoSetDuration \/ DoSetMakeFrame \/ DoSetMemoize
    \/ DoFl \/ DoFlTime \/ DoSubclip \/ DoCutout \/ DoComposite
    \/ DoGetFrame \/ DoIsPlaying \/ DoIsPlayingVector

\* ---------------------------------------------------------- AudioArrayClip
\* Row i of the array such a clip is made from: stereo, no row is zero and
\* the rows differ.
ArrayRow(i) == <<10 * (i + 1) + 1, 10 * (i + 1) + 2>>
\* int(self.fps * t) and (self.fps*t).astype(int) of a time of h half
\* seconds: both truncate towards zero.
ArrayIndex(fps, h) == ScalarIndex(fps * h)
\* make_frame(t) of a number t (lines 248-253) on an array of len rows
ArrayFrame(len, fps, h) ==
    LET i == ArrayIndex(fps, h)
    IN IF i < 0 \/ i >= len THEN Zeros(2) ELSE ArrayRow(i)
\* make_frame(t) of an array t (lines 242-247)
RECURSIVE ArrayFrames(_, _, _)
ArrayFrames(len, fps, tt) ==
    IF tt = <<>> THEN <<>>
    ELSE LET array_ind == ArrayIndex(fps, Head(tt))
             in_array == (array_ind > 0) /\ (array_ind < len)
         IN <<IF in_array THEN ArrayRow(array_ind) ELSE Zeros(2)>>
                \o ArrayFrames(len, fps, Tail(tt))

\* self.make_frame of an AudioArrayClip: g holds len(self.array) and fun.a
\* holds self.fps.
ArrayMakeFrame(len, fps) ==
    [NoMakeFrame EXCEPT !.tag = "array", !.g = len, !.fun = Fun("array", fps, 0)]
\* AudioArrayClip.__init__(array, fps), lines 230-257, for an array of whole
\* seconds
AudioArrayClip(len, fps) ==
    [NewClip EXCEPT !.duracion = len \div fps, !.make_frame = ArrayMakeFrame(len, fps),
                    !.nchannels = 2]

\* The times such a clip is asked, in half seconds: from a second before
\* the array to a second after it.
ArrayTicks(o) == (-2)..(2 * o.duracion + 2)

AInit ==
    /\ \E fps \in 1..MaxFps, seconds \in 1..MaxSeconds :
          clips = <<AudioArrayClip(fps * seconds, fps)>>
    /\ handles = {1}
    /\ last = Call("init", NoClip, 0, 0, FALSE, Raised(<<>>, "ok"))
    /\ ReaderConstructed(2, 1)

\* clip.get_frame(t) of an AudioArrayClip, t a number
DoArrayFrame ==
    \E c \in handles :
        \E h \in ArrayTicks(clips[c]) :
            /\ last' = [op |-> "array_frame", src |-> c, a |-> h, b |-> 0, flag |-> FALSE,
                        res |-> NoClip, status |-> "ok",
                        out |-> ArrayFrame(clips[c].make_frame.g, clips[c].make_frame.fun.a, h)]
            /\ UNCHANGED <<clips, handles, rvars>>

\* clip.get_frame(tt) of an AudioArrayClip, tt an array of n times half a
\* second apart
DoArrayFrames ==
    \E c \in handles, n \in 1..MaxVec :
        \E h \in ArrayTicks(clips[c]) :
            /\ last' = [op |-> "array_frames", src |-> c, a |-> h, b |-> n, flag |-> FALSE,
                        res |-> NoClip, status |-> "ok",
                        out |-> ArrayFrames(clips[c].make_frame.g, clips[c].make_frame.fun.a,
                                            Arange(h, n))]
            /\ UNCHANGED <<clips, handles, rvars>>

ANext == DoArrayFrame \/ DoArrayFrames

\* ---------------------------------------------------------- specifications
\* An AudioArrayClip asked for frames.
SpecArray == AInit /\ [][ANext]_vars

\* The reader alone: no clip exists.
SpecReader == RInit /\ [][RNext]_vars

\* The reader with its seek method called from outside as well.
SpecSeek == RInit /\ [][SNext]_vars

\* The clips alone: the reader stays as constructed.
SpecClip == CInit /\ [][CNext]_vars

Spec == SpecClip

\* ------------------------------------------------------------------ claims

\* C1: buffer invariant of the reader: after construction and after any
\* get_frame calls, buffer[k] is the source sample of index
\* buffer_iniciaframe + k for every k, and buffer_iniciaframe <= pos.
C1_BufferHoldsWindow ==
    /\ \A k \in 1..Len(buffer) : buffer[k] = Sample(buffer_iniciaframe + k - 1)
    /\ buffer_iniciaframe <= pos

\* The read that a reader fresh from its constructor answers for time h.
FreshRead(h) ==
    ScalarGetFrame([Constructed(duracion, buffersize) EXCEPT !.calls = 0, !.seeks = 0,
                        !.spawns = 0, !.branch = "none"],
                   nframes, buffersize, h)

\* C2: a scalar read of an index in [0, nframes) returns the same sample
\* whatever reads came before it: the sample the last read returned is the
\* sample a read of the same time returns right after construction.
C2_SameIndexSameSample ==
    (/\ rd_last.op = "scalar"
     /\ rd_last.status = "ok"
     /\ ScalarIndex(rd_last.arg[1]) \in 0..(nframes - 1)
     /\ FreshRead(rd_last.arg[1]).err = "ok")
    => rd_last.out = FreshRead(rd_last.arg[1]).out

\* C3: with buffersize >= 2 and the decoder open, a scalar read of a source
\* index inside the window calls buffer_around not at all and leaves
\* buffer, buffer_iniciaframe, pos and the decoder as they were; the read of
\* the first index past the window end calls buffer_around exactly once, on
\* its overlap branch, with no seek and no decoder respawn, and no read
\* raises IOError.
C3_ForwardRead ==
    [][\A h \in Ticks(duracion) :
          (/\ rd_last'.op = "scalar"
           /\ rd_last'.arg = <<h>>
           /\ ScalarIndex(h) \in 0..(nframes - 1)
           /\ buffersize >= 2
           /\ proc = "live")
          => /\ rd_last'.status # "IOError"
             /\ InBuffer(Reader, ScalarIndex(h))
                  => /\ rd_last'.calls = 0
                     /\ rd_last'.status = "ok"
                     /\ UNCHANGED <<buffer, buffer_iniciaframe, pos, proc, dec>>
             /\ ScalarIndex(h) = buffer_iniciaframe + Len(buffer)
                  => /\ rd_last'.calls = 1
                     /\ rd_last'.branch = "overlap"
                     /\ rd_last'.seeks = 0
                     /\ rd_last'.spawns = 0
                     /\ rd_last'.status = "ok"
                     /\ proc' = proc
      ]_vars

\* C3's case: a scalar read of a source index has just re-centered on the
\* overlap branch, reading on past the window it took over.
C3_Witness ==
    /\ rd_last.op = "scalar"
    /\ rd_last.status = "ok"
    /\ rd_last.calls = 1
    /\ rd_last.branch = "overlap"
    /\ buffersize >= 2
    /\ ScalarIndex(rd_last.arg[1]) \in 1..(nframes - 1)
    /\ buffer_iniciaframe > 0

\* C4: every clip with inicia, fin and duracion all set has
\* duracion = fin - inicia.
C4_WindowConsistent ==
    \A k \in DOMAIN clips :
        (clips[k].fin # None /\ clips[k].duracion # None)
        => clips[k].duracion = clips[k].fin - clips[k].inicia

\* C4's case: a clip derived from a derived clip, moved off 0, with its
\* window fully set.
C4_Witness ==
    /\ last.op \in {"set_inicia", "set_end", "set_duration", "subclip", "cutout"}
    /\ last.status = "ok"
    /\ Cardinality(handles) > 2
    /\ clips[last.res].inicia > 0
    /\ clips[last.res].fin # None
    /\ clips[last.res].duracion # None

\* C5: every clip with fin set has inicia <= fin: an operator whose
\* arguments would give fin < inicia raises instead of returning the clip.
C5_WindowOrdered ==
    \A k \in DOMAIN clips : clips[k].fin # None => clips[k].inicia <= clips[k].fin

\* The operators that return a derived clip.
Deriving ==
    {"set_inicia", "set_end", "set_duration", "set_make_frame", "set_memoize", "fl",
     "fl_time", "subclip", "cutout"}

\* C6: an operator that returns a derived clip returns an object that did
\* not exist before and changes no field of any object that did, the clip
\* it was called on and that clip's mask and audio among them; the mask and
\* the audio of the clip returned are objects that did not exist before.
C6_CopyOnWrite ==
    [][(last'.op \in Deriving /\ last'.status = "ok")
       => /\ last'.res \notin DOMAIN clips
          /\ last'.res \in DOMAIN clips'
          /\ \A k \in DOMAIN clips : clips'[k] = clips[k]
          /\ clips'[last'.res].audio \notin DOMAIN clips
          /\ clips'[last'.res].mask \notin DOMAIN clips
          /\ (clips[last'.src].audio # NoClip) => (clips'[last'.res].audio # NoClip)
          /\ (clips[last'.src].mask # NoClip) => (clips'[last'.res].mask # NoClip)
      ]_vars

\* C6's case: an operator has returned a clip derived from a clip that
\* carries an audio and a mask.
C6_Witness ==
    /\ last.op \in Deriving
    /\ last.status = "ok"
    /\ clips[last.src].audio # NoClip
    /\ clips[last.src].mask # NoClip
    /\ clips[last.res].audio # clips[last.src].audio

\* C7: is_playing(t) of a scalar t is true iff inicia <= t and fin is unset
\* or t < fin; is_playing(inicia) is true of every clip whose window is
\* unbounded or not empty, and is_playing(fin) is false whenever fin is set.
C7_HalfOpenWindow ==
    /\ \A k \in DOMAIN clips :
          /\ (clips[k].fin = None \/ clips[k].inicia < clips[k].fin)
                => IsPlayingAt(clips[k], clips[k].inicia)
          /\ clips[k].fin # None => ~IsPlayingAt(clips[k], clips[k].fin)
    /\ last.op = "is_playing"
          => (last.out = 1 <=> /\ clips[last.src].inicia <= last.a
                               /\ (clips[last.src].fin = None \/ last.a < clips[last.src].fin))

\* C7's case: is_playing(fin) has been asked of a derived clip with a
\* window that is not empty, and has answered false.
C7_Witness ==
    /\ last.op = "is_playing"
    /\ clips[last.src].fin # None
    /\ clips[last.src].inicia > 0
    /\ clips[last.src].inicia < clips[last.src].fin
    /\ last.a = clips[last.src].fin
    /\ last.out = 0

\* C8: for 0 <= a < b <= D = c.duracion, c.subclip(a, b) has duracion
\* b - a and fin = inicia + duracion, and its frame at t is c's frame at
\* t + a; c.subclip(a) has duracion D - a; c.subclip(0, -k) has the window
\* and the frames of c.subclip(0, D - k).
C8_SubclipResult ==
    (last.op = "subclip" /\ last.status = "ok" /\ clips[last.src].duracion # None)
    => LET c == clips[last.src]
           d == clips[last.res]
           D == c.duracion
           a == last.a
           b == last.b
           same == Subclip(clips, last.src, 0, D + b)
       IN /\ (b # None /\ a < b /\ b <= D)
                => /\ d.duracion = b - a
                   /\ d.fin = d.inicia + d.duracion
                   /\ \A t \in 0..(b - a - 1) :
                         GetFrame(clips, last.res, t).out = GetFrame(clips, last.src, t + a).out
          /\ b = None => d.duracion = D - a
          /\ (b # None /\ b < 0 /\ a = 0)
                => /\ same.err = "ok"
                   /\ d.inicia = same.h[same.res].inicia
                   /\ d.fin = same.h[same.res].fin
                   /\ d.duracion = same.h[same.res].duracion
                   /\ \A t \in Times :
                         GetFrame(clips, last.res, t).out = GetFrame(same.h, same.res, t).out

\* C9: c.fl(fun, keep_duration=True) has c's inicia, fin and duracion;
\* c.fl(fun, keep_duration=False) has duracion and fin unset; in both the
\* frame of the result at t is fun(c.get_frame, t), and fl_time(t_func) is
\* the fl of gf(t_func(t)).
C9_FlResult ==
    (last.op \in {"fl", "fl_time"} /\ last.status = "ok")
    => LET c == clips[last.src]
           d == clips[last.res]
       IN /\ d.inicia = c.inicia
          /\ last.flag => (d.fin = c.fin /\ d.duracion = c.duracion)
          /\ ~last.flag => (d.fin = None /\ d.duracion = None)
          /\ \A t \in Times :
                GetFrame(clips, last.res, t).out
                    = VMap(FunOf(last.op),
                           GetFrame(clips, last.src, TMap(FunOf(last.op), t)).out)

\* The ends of the children of a composite clip.
ChildEnds(k) == {clips[clips[k].make_frame.clips[j]].fin :
                    j \in DOMAIN clips[k].make_frame.clips}

FrameTimes == (-1)..(MaxT + 1)

\* The children of composite k that play at t, as positions of its list.
PlayingAt(k, t) ==
    {j \in DOMAIN clips[k].make_frame.clips :
        LET c == clips[clips[k].make_frame.clips[j]]
        IN c.inicia <= t /\ (c.fin = None \/ t < c.fin)}

\* Channel ch of the frame child j of composite k gives at its local time.
ChildValue(k, j, t, ch) ==
    LET c == clips[k].make_frame.clips[j]
        frame == GetFrame(clips, c, t - clips[c].inicia).out
    IN frame[IF ch <= Len(frame) THEN ch ELSE 1]

RECURSIVE ChannelSum(_, _, _, _)
ChannelSum(k, js, t, ch) ==
    IF js = {} THEN 0
    ELSE LET j == CHOOSE x \in js : TRUE
         IN ChildValue(k, j, t, ch) + ChannelSum(k, js \ {j}, t, ch)

\* The children of composite k in reverse order.
Reversed(k) ==
    [j \in DOMAIN clips[k].make_frame.clips |->
        clips[k].make_frame.clips[Len(clips[k].make_frame.clips) + 1 - j]]

\* C11: get_frame(t) of a CompositeAudioClip is, channel by channel, the sum
\* of c.get_frame(t - c.inicia) over exactly the children c with
\* c.inicia <= t and (c.fin unset or t < c.fin); it has nchannels channels
\* and is all zero when no child plays; and the composite of the same
\* children in reverse order gives the same frame.
C11_CompositeFrame ==
    \A k \in DOMAIN clips : \A t \in FrameTimes :
        (clips[k].make_frame.tag = "composite" /\ clips[k].make_frame.parent = k)
        => LET r == GetFrame(clips, k, t)
               other == CompositeAudioClip(clips, Reversed(k))
           IN /\ r.err = "ok"
              /\ Len(r.out) = clips[k].nchannels
              /\ \A ch \in DOMAIN r.out : r.out[ch] = ChannelSum(k, PlayingAt(k, t), t, ch)
              /\ PlayingAt(k, t) = {} => r.out = Zeros(clips[k].nchannels)
              /\ GetFrame(other.h, other.res, t).out = r.out

\* C11's case: a composite of two children with disjoint windows has been
\* made; at some time only the second plays and at some time none does.
C11_Witness ==
    /\ last.op = "composite"
    /\ last.status = "ok"
    /\ last.b = 2
    /\ clips[last.src].fin # None
    /\ clips[last.src].fin <= clips[last.a].inicia
    /\ \E t \in FrameTimes : PlayingAt(last.res, t) = {2}
    /\ \E t \in FrameTimes : t >= 0 /\ PlayingAt(last.res, t) = {}

\* The start t_inicia lies beyond the known duracion of object k (no object
\* and unknown duracion: not beyond).
Beyond(k, t_inicia) ==
    k # NoClip /\ clips[k].duracion # None /\ t_inicia > clips[k].duracion

\* C12 as stated: on a clip of known duracion D, subclip(t_inicia, t_end)
\* raises its error if t_inicia > D, and with t_inicia <= D the error is not
\* raised.
C12_RaisesOnlyBeyondDuracion ==
    (last.op = "subclip" /\ clips[last.src].duracion # None)
    => (last.status = "ValueError" <=> last.a > clips[last.src].duracion)

\* C12, amended: on a clip of known duracion D, subclip(t_inicia, t_end)
\* raises ValueError at the call iff t_inicia > D or t_inicia is beyond the
\* known duracion of the clip's audio or mask, to which subclip is applied
\* in turn; when it raises it returns no clip and leaves every object as it
\* was, and otherwise it returns a new clip.
C12_SubclipFailsFast ==
    [][(last'.op = "subclip" /\ clips[last'.src].duracion # None)
       => /\ last'.status = "ValueError"
                <=> \/ Beyond(last'.src, last'.a)
                    \/ Beyond(clips[last'.src].audio, last'.a)
                    \/ Beyond(clips[last'.src].mask, last'.a)
          /\ last'.status = "ValueError"
                => (last'.res = NoClip /\ clips' = clips /\ handles' = handles)
          /\ last'.status # "ValueError"
                => (last'.status = "ok" /\ last'.res \notin DOMAIN clips
                    /\ last'.res \in handles')
      ]_vars

\* C12's case: subclip has raised on a clip whose own duracion is known and
\* reaches t_inicia, because the duracion of its audio does not.
C12_Witness ==
    /\ last.op = "subclip"
    /\ last.status = "ValueError"
    /\ last.res = NoClip
    /\ clips[last.src].duracion # None
    /\ last.a <= clips[last.src].duracion
    /\ Beyond(clips[last.src].audio, last.a)

\* C13: subclip with a negative t_end on a clip whose duracion is unknown
\* raises an error and returns no clip; it never returns a clip whose
\* duracion is t_end - t_inicia computed from the raw negative t_end.
C13_NegativeEndRaises ==
    (/\ last.op = "subclip"
     /\ clips[last.src].duracion = None
     /\ last.b # None
     /\ last.b < 0)
    => /\ last.status # "ok"
       /\ last.res = NoClip

\* C14: single-entry memoization.  On a clip with memoize enabled, a
\* get_frame call at time t invokes make_frame iff t differs from the time of
\* the immediately preceding get_frame call on that clip (on a clip that was
\* never asked, every call invokes it); with memoize disabled every call
\* invokes make_frame.
C14_SingleEntryMemo ==
    \A k \in DOMAIN clips : \A t \in Times :
        Invokes(clips[k], t) <=> (~clips[k].memoize \/ t # clips[k].asked)

\* The setter returned a clip whose inicia, fin and duracion are these.
Gives(ini, end, dur) ==
    /\ last.status = "ok"
    /\ last.res \in DOMAIN clips
    /\ clips[last.res].inicia = ini
    /\ clips[last.res].fin = end
    /\ clips[last.res].duracion = dur

\* C15: the window setters update two fields and derive the third on a copy.
\* set_inicia(t) on a clip with known duracion gives inicia = t,
\* fin = t + duracion, duracion unchanged; set_inicia(t, change_end=False) on
\* a clip with fin set gives inicia = t, fin unchanged, duracion = fin - t;
\* set_end(t) gives fin = t, duracion = t - inicia, inicia unchanged;
\* set_duration(t) gives duracion = t, fin = inicia + t, inicia unchanged;
\* set_duration(t, change_end=False) on a clip with fin set gives
\* duracion = t, inicia = fin - t, fin unchanged.
C15_WindowSetters ==
    LET self == clips[last.src]
        t == last.a
    IN /\ (last.op = "set_inicia" /\ last.flag /\ self.duracion # None)
              => Gives(t, t + self.duracion, self.duracion)
       /\ (last.op = "set_inicia" /\ ~last.flag /\ self.fin # None)
              => Gives(t, self.fin, self.fin - t)
       /\ (last.op = "set_end")
              => Gives(self.inicia, t, t - self.inicia)
       /\ (last.op = "set_duration" /\ last.flag /\ t # None)
              => Gives(self.inicia, self.inicia + t, t)
       /\ (last.op = "set_duration" /\ ~last.flag /\ t # None /\ self.fin # None)
              => Gives(self.fin - t, self.fin, t)

\* C16: c.cutout(ta, tb) with ta <= tb removes [ta, tb): the frame of the
\* result at t is c's frame at t for t < ta and c's frame at t + (tb - ta)
\* for t >= ta; if c.duracion = D is known the result has duracion
\* D - (tb - ta) and fin = inicia + duracion, and if it is unknown the
\* result's duracion and fin are unset.
C16_CutoutResult ==
    (last.op = "cutout" /\ last.status = "ok" /\ last.a <= last.b)
    => LET c == clips[last.src]
           d == clips[last.res]
           ta == last.a
           tb == last.b
       IN /\ \A t \in Times :
                GetFrame(clips, last.res, t).out
                    = GetFrame(clips, last.src, IF t < ta THEN t ELSE t + (tb - ta)).out
          /\ c.duracion # None
                => /\ d.duracion = c.duracion - (tb - ta)
                   /\ d.fin = d.inicia + d.duracion
          /\ c.duracion = None
                => /\ d.duracion = None
                   /\ d.fin = None

\* The reader's buffer, window start, position and decoder are as they were.
ReaderUntouched == UNCHANGED <<buffer, buffer_iniciaframe, pos, proc, dec>>

\* C17: a scalar get_frame whose sample index lies outside [0, nframes),
\* the index nframes included, returns the all-zero sample and does not
\* re-center: buffer, buffer_iniciaframe, pos and the decoder are unchanged.
C17_ScalarOutOfRange ==
    [][(/\ rd_last'.op = "scalar"
        /\ ~(0 <= ScalarIndex(rd_last'.arg[1]) /\ ScalarIndex(rd_last'.arg[1]) < nframes))
       => /\ rd_last'.status = "ok"
          /\ rd_last'.out = <<ZeroSample>>
          /\ rd_last'.calls = 0
          /\ ReaderUntouched
      ]_vars

\* C18: a get_frame on an array of times, some of them inside the source,
\* on a reader with a live decoder re-centers the buffer at most once and
\* then either returns, for every time inside the source, the source sample
\* at its index and zero for the others, or raises IOError; it never returns
\* the sample of another index.
C18_VectorRead ==
    [][(/\ rd_last'.op = "vector"
        /\ proc = "live"
        /\ \E j \in DOMAIN rd_last'.arg : InTime(duracion, rd_last'.arg[j]))
       => /\ rd_last'.calls <= 1
          /\ rd_last'.status \in {"ok", "IOError"}
          /\ rd_last'.status = "ok"
                => /\ DOMAIN rd_last'.out = DOMAIN rd_last'.arg
                   /\ \A j \in DOMAIN rd_last'.arg :
                         rd_last'.out[j] = IF InTime(duracion, rd_last'.arg[j])
                                           THEN Sample(RoundIndex(rd_last'.arg[j]))
                                           ELSE ZeroSample
      ]_vars

\* C19: when get_frame raises IOError the error propagates without another
\* attempt, and afterwards the decoder process is terminated and its pipes
\* are closed.
C19_IOErrorClosesDecoder ==
    rd_last.status = "IOError"
    => /\ rd_last.calls <= 1
       /\ proc # "live"

\* C20: close_proc is idempotent.  On a reader with a live decoder it
\* terminates the process, closes its pipes and touches nothing else; any
\* later close_proc (the one of __del__ included) raises nothing and changes
\* nothing; on a reader that never spawned a decoder it does nothing.
C20_CloseIdempotent ==
    [][rd_last'.op = "close"
       => /\ rd_last'.status = "ok"
          /\ UNCHANGED <<buffer, buffer_iniciaframe, pos, dec>>
          /\ proc = "live" => (proc' = "deleted" /\ rd_last'.kills = 1)
          /\ proc # "live" => (rd_last'.kills = 0 /\ ReaderUntouched)
          /\ CloseProcOf(Unspawned) = Unspawned
          /\ CloseProcOf(CloseProcOf(Reader)) = CloseProcOf(Reader)
      ]_vars

\* C20's case: close_proc has just run on a reader whose decoder an earlier
\* close_proc had terminated.
C20_Witness ==
    /\ rd_last.op = "close"
    /\ rd_last.status = "ok"
    /\ rd_last.kills = 0
    /\ proc = "deleted"

\* C21: is_playing of an array of times agrees with is_playing of each time:
\* it returns all-false when every time lies outside [inicia, fin), and
\* otherwise a 0/1 vector whose i-th entry is 1 iff inicia <= t_i and fin is
\* unset or t_i < fin; a time equal to fin gets 0.
C21_VectorIsPlaying ==
    last.op = "is_playing_vector"
    => \/ /\ last.out = NotPlaying
          /\ \A j \in 1..last.b : ~IsPlayingAt(clips[last.src], Arange(last.a, last.b)[j])
       \/ /\ Len(last.out) = last.b
          /\ \A j \in 1..last.b :
                last.out[j] = 1 <=> IsPlayingAt(clips[last.src], Arange(last.a, last.b)[j])
          /\ \A j \in 1..last.b : last.out[j] \in {0, 1}

\* C22: the seek policy.  On a reader with a live decoder seek(p) terminates
\* and respawns the decoder iff p < pos or p > pos + 1000000; for
\* pos < p <= pos + 1000000 it keeps the process and reads and drops the
\* p - pos rows after the decoder's cursor (as many of them as the stream
\* still holds); for p = pos it does nothing; in every case pos = p
\* afterwards.  So a get_frame call respawns the decoder at most once, and
\* not at all when buffer_around takes the overlap branch.
C22_SeekPolicy ==
    [][/\ (rd_last'.op = "seek" /\ proc = "live")
          => LET p == rd_last'.arg[1]
             IN /\ rd_last'.status = "ok"
                /\ pos' = p
                /\ (p < pos \/ p > pos + SkipLimit)
                      => /\ rd_last'.spawns = 1 /\ rd_last'.kills = 1
                         /\ proc' = "live" /\ dec' = p
                /\ (pos < p /\ p <= pos + SkipLimit)
                      => /\ rd_last'.spawns = 0 /\ rd_last'.kills = 0
                         /\ proc' = "live"
                         /\ dec' = dec + AvailableRows(nframes, dec, p - pos)
                /\ p = pos
                      => /\ rd_last'.spawns = 0 /\ rd_last'.kills = 0
                         /\ ReaderUntouched
                /\ UNCHANGED <<buffer, buffer_iniciaframe>>
       /\ rd_last'.op \in {"scalar", "vector"}
          => /\ rd_last'.spawns <= 1
             /\ rd_last'.branch = "overlap" => (rd_last'.spawns = 0 /\ rd_last'.seeks = 0)
      ]_vars

\* C22's case: a seek beyond the forward-skip limit has respawned a live
\* decoder at the position asked for.
C22_Witness ==
    /\ rd_last.op = "seek"
    /\ rd_last.status = "ok"
    /\ rd_last.spawns = 1
    /\ rd_last.kills = 1
    /\ rd_last.arg[1] > SkipLimit
    /\ pos = rd_last.arg[1]

\* C23: no leaked decoder.  Through construction, reads, re-centerings,
\* seeks and close_proc calls the reader owns at most one running decoder
\* process at any point, the one self.proc refers to; initialize has
\* terminated the process it had before it spawns the next, and after
\* close_proc the reader owns none.
C23_NoLeakedDecoder ==
    /\ rd_last.peak <= 1
    /\ rd_last.running = IF proc = "live" THEN 1 ELSE 0
    /\ rd_last.op = "close" => (rd_last.running = 0 /\ proc # "live")
    /\ rd_last.op = "init" => (rd_last.spawns = 1 /\ rd_last.kills = 0)

\* C23's case: a call has respawned the decoder, terminating the one that
\* ran before.
C23_Witness ==
    /\ rd_last.op \in {"scalar", "vector", "seek"}
    /\ rd_last.spawns = 1
    /\ rd_last.kills = 1
    /\ rd_last.running = 1
    /\ proc = "live"

\* The function the last operator wrapped around the frames of its source.
Wrapped ==
    CASE last.op = "subclip" -> Fun("shift", last.a, 0)
      [] last.op = "cutout" -> Fun("cut", last.a, last.b)
      [] OTHER -> FunOf(last.op)

\* C24: a derived clip never serves its parent's cached frame.  When c has
\* memoize enabled and get_frame(t0) has been called on it, the clip d made
\* from c by fl, fl_time, subclip or cutout answers its first get_frame(t0)
\* with fun(c.get_frame, t0), fun being the function the operator wraps
\* around c's frames.
C24_DerivedClipOwnFrame ==
    (/\ last.op \in {"fl", "fl_time", "subclip", "cutout"}
     /\ last.status = "ok"
     /\ clips[last.src].memoize
     /\ clips[last.src].asked # None)
    => LET t0 == clips[last.src].asked
       IN GetFrame(clips, last.res, t0).out
              = VMap(Wrapped, GetFrame(clips, last.src, TMap(Wrapped, t0)).out)

\* C25: the two paths of AudioArrayClip agree.  get_frame of an array of
\* times returns in row j the sample that get_frame of the number t_j
\* returns: A[i] with i = int(fps * t_j) when 0 <= i < len(A), i = 0
\* included, and the zero sample otherwise.
C25_ArrayPathsAgree ==
    /\ last.op = "array_frame"
          => LET i == ArrayIndex(clips[last.src].make_frame.fun.a, last.a)
             IN last.out = IF 0 <= i /\ i < clips[last.src].make_frame.g
                           THEN ArrayRow(i) ELSE Zeros(2)
    /\ last.op = "array_frames"
          => /\ Len(last.out) = last.b
             /\ \A j \in 1..last.b :
                   last.out[j] = ArrayFrame(clips[last.src].make_frame.g,
                                            clips[last.src].make_frame.fun.a,
                                            Arange(last.a, last.b)[j])

====
